---- MODULE Spec2Model ----
(***************************************************************************)
(* Model of src/python/main.py: a CRUD service over three sqlite tables    *)
(* (posts, comments, likes) with twelve HTTP handlers.                     *)
(*                                                                         *)
(* Spec      : requests served one at a time, every handler one action,    *)
(*             the store rejects a statement only for a PRIMARY KEY clash; *)
(*             two post ids, two comment ids, one clock reading.           *)
(* SpecTime  : as Spec with one post id, one comment id and every clock    *)
(*             reading.                                                    *)
(* SpecFault : requests served one at a time, and any one statement of a   *)
(*             request may raise sqlite3.OperationalError (locked          *)
(*             database, I/O error).                                       *)
(* SpecConc  : like_post and delete_post requests of several worker        *)
(*             threads, interleaved statement by statement.                *)
(***************************************************************************)
EXTENDS Integers, FiniteSets, Bags

\* ------------------------------------------------------------------ bounds
MaxTime == 2          \* datetime.utcnow().isoformat() reads 1..MaxTime
MaxStmt == 5          \* a fault may hit any of the first MaxStmt statements
NumUsers == 2         \* usernames that like and unlike

PostIds    == {"p1", "p2"}            \* values of os.urandom(8).hex() / {postId}
CommentIds == {"c1", "c2"}            \* values of os.urandom(8).hex() / {commentId}
Names      == <<"ann", "bob", "cy", "dee">>
Usernames  == {Names[k] : k \in 1..NumUsers}
Bodies     == {[username |-> "ann", content |-> "hi"],
               [username |-> "bob", content |-> "yo"]}
Times      == 1..MaxTime
Workers    == {"w1", "w2"}              \* threads of the server's pool

None == [none |-> TRUE]               \* Python's None / an empty body

\* ------------------------------------------------------- storage statements
\* cursor.fetchone(): the first row of the result, or None
fetchone(rows) == IF rows = {} THEN None ELSE CHOOSE r \in rows : TRUE

\* SELECT * FROM posts WHERE id=?
SelectPost(P, postId) == {r \in P : r.id = postId}

\* SELECT * FROM comments WHERE id=? AND postId=?
SelectComment(C, commentId, postId) ==
    {r \in C : r.id = commentId /\ r.postId = postId}

\* SELECT * FROM comments WHERE postId=?
SelectComments(C, postId) == {r \in C : r.postId = postId}

\* mutant: the count without its WHERE clause
CountLikes_All(L, postId) == BagCardinality(L)

\* SELECT COUNT(*) FROM likes WHERE postId=?
CountLikes(L, postId) ==
    BagCardinality([e \in {x \in BagToSet(L) : x.postId = postId} |-> L[e]])

\* SELECT COUNT(*) FROM comments WHERE postId=?
CountComments(C, postId) == Cardinality({r \in C : r.postId = postId})

\* The result of a write statement: ok = FALSE when the store raised
\* sqlite3.IntegrityError, and then the table is as before.
Done(t)   == [ok |-> TRUE,  t |-> t]
Raised(t) == [ok |-> FALSE, t |-> t]

\* INSERT INTO posts ...   (id TEXT PRIMARY KEY)
InsertPost(P, row) ==
    IF \E r \in P : r.id = row.id THEN Raised(P) ELSE Done(P \cup {row})

\* INSERT INTO comments ...   (id TEXT PRIMARY KEY)
InsertComment(C, row) ==
    IF \E r \in C : r.id = row.id THEN Raised(C) ELSE Done(C \cup {row})

\* mutant: the likes table without its PRIMARY KEY
InsertLike_NoKey(L, postId, username) ==
    Done(L (+) SetToBag({[postId |-> postId, username |-> username]}))

\* INSERT INTO likes ...   (PRIMARY KEY (postId, username))
InsertLike(L, postId, username) ==
    LET row == [postId |-> postId, username |-> username]
    IN  IF BagIn(row, L) THEN Raised(L) ELSE Done(L (+) SetToBag({row}))

\* mutant: the update also stamps createdAt
UpdatePost_Restamps(P, postId, data, now) ==
    {IF r.id = postId
       THEN [r EXCEPT !.username = data.username, !.content = data.content,
                      !.createdAt = now, !.updatedAt = now]
       ELSE r : r \in P}

\* UPDATE posts SET username=?, content=?, updatedAt=? WHERE id=?
UpdatePost(P, postId, data, now) ==
    {IF r.id = postId
       THEN [r EXCEPT !.username = data.username, !.content = data.content,
                      !.updatedAt = now]
       ELSE r : r \in P}

\* UPDATE comments SET username=?, content=?, updatedAt=? WHERE id=? AND postId=?
UpdateComment(C, commentId, postId, data, now) ==
    {IF r.id = commentId /\ r.postId = postId
       THEN [r EXCEPT !.username = data.username, !.content = data.content,
                      !.updatedAt = now]
       ELSE r : r \in C}

\* DELETE FROM posts WHERE id=?
DeletePost(P, postId) == {r \in P : r.id # postId}

\* mutant: the cascade forgets the comments
DeleteCommentsOf_Nothing(C, postId) == C

\* DELETE FROM comments WHERE postId=?
DeleteCommentsOf(C, postId) == {r \in C : r.postId # postId}

\* DELETE FROM likes WHERE postId=?
DeleteLikesOf(L, postId) ==
    [e \in {x \in BagToSet(L) : x.postId # postId} |-> L[e]]

\* DELETE FROM comments WHERE id=? AND postId=?
DeleteComment(C, commentId, postId) ==
    {r \in C : ~(r.id = commentId /\ r.postId = postId)}

\* mutant: the delete without its username condition
DeleteLike_AnyUser(L, postId, username) ==
    [e \in {x \in BagToSet(L) : x.postId # postId} |-> L[e]]

\* DELETE FROM likes WHERE postId=? AND username=?
DeleteLike(L, postId, username) ==
    [e \in {x \in BagToSet(L) : ~(x.postId = postId /\ x.username = username)}
       |-> L[e]]

\* ------------------------------------------------------------------- state
VARIABLES
    posts,      \* committed rows of table posts
    comments,   \* committed rows of table comments
    likes,      \* committed rows of table likes (a bag: the table is a multiset
                \* of rows, kept duplicate-free only by its PRIMARY KEY)
    last,       \* the request served last and the response it got
    conn,       \* the connection of the request served last: "open" / "closed"
    born,       \* history: createdAt given to each post / comment id at creation
    pc,         \* SpecConc: the statement each worker is about to run
    req,        \* SpecConc: the request each worker is serving
    txn,        \* SpecConc: the uncommitted tables of the writing worker
    writer      \* SpecConc: the worker holding the store's write lock, or "-"

vars == <<posts, comments, likes, last, conn, born, pc, req, txn, writer>>
concVars == <<pc, req, txn, writer>>

\* ---------------------------------------------------------------- responses
\* class Post / class Comment
Post(row, nlikes, ncomments) ==
    [id |-> row.id, username |-> row.username, content |-> row.content,
     createdAt |-> row.createdAt, updatedAt |-> row.updatedAt,
     likes |-> nlikes, comments |-> ncomments]

Comment(row) ==
    [id |-> row.id, postId |-> row.postId, username |-> row.username,
     content |-> row.content, createdAt |-> row.createdAt,
     updatedAt |-> row.updatedAt]

\* JSONResponse(status_code=code, content={"message": message, "code": code})
error_response(message, code) ==
    [status |-> code, kind |-> "error",
     body |-> [message |-> message, code |-> code]]

\* a model instance returned by a handler, serialised with the route's status
Entity(status, e) == [status |-> status, kind |-> "entity", body |-> e]
\* a list returned by a handler
Listing(es) == [status |-> 200, kind |-> "list", body |-> es]
\* Response(status_code=...)
Empty(status) == [status |-> status, kind |-> "empty", body |-> None]
\* an exception that left the handler: the server answers 500 with a plain
\* text body that is not the Error shape
Uncaught == [status |-> 500, kind |-> "uncaught", body |-> None]

\* What a handler leaves behind: the committed tables, the response and
\* whether its connection was closed.  A transaction that was not committed
\* is rolled back when its connection goes away, so the tables are as before.
Out(P, C, L, r, cn) ==
    [posts |-> P, comments |-> C, likes |-> L, resp |-> r, conn |-> cn]

\* In the handlers f is the number of the statement of the request that
\* raises sqlite3.OperationalError, 0 when none does.

\* ----------------------------------------------------------------- handlers
\* GET /posts
list_posts(P, C, L, f) ==
    IF f \in 1..(1 + 2 * Cardinality(P))
    THEN Out(P, C, L, Uncaught, "open")
    ELSE Out(P, C, L,
             Listing({Post(r, CountLikes(L, r.id), CountComments(C, r.id))
                        : r \in P}),
             "closed")

\* POST /posts
create_post(P, C, L, post_id, data, now, f) ==
    LET row == [id |-> post_id, username |-> data.username,
                content |-> data.content, createdAt |-> now, updatedAt |-> now]
        ins == InsertPost(P, row)
    IN  IF f = 1 \/ ~ins.ok \/ f = 2
        THEN Out(P, C, L, error_response("Could not create post", 400), "closed")
        ELSE Out(ins.t, C, L, Entity(201, Post(row, 0, 0)), "closed")

\* GET /posts/{postId}
get_post(P, C, L, postId, f) ==
    LET post == fetchone(SelectPost(P, postId))
    IN  IF f = 1 THEN Out(P, C, L, Uncaught, "open")
        ELSE IF post = None
        THEN Out(P, C, L, error_response("Post not found", 404), "closed")
        ELSE IF f = 2 \/ f = 3 THEN Out(P, C, L, Uncaught, "open")
        ELSE Out(P, C, L,
                 Entity(200, Post(post, CountLikes(L, postId),
                                  CountComments(C, postId))),
                 "closed")

\* PATCH /posts/{postId}
update_post(P, C, L, postId, data, now, f) ==
    LET post == fetchone(SelectPost(P, postId))
        P2   == UpdatePost(P, postId, data, now)
    IN  IF f = 1 THEN Out(P, C, L, Uncaught, "open")
        ELSE IF post = None
        THEN Out(P, C, L, error_response("Post not found", 404), "closed")
        ELSE IF f = 2 \/ f = 3
        THEN Out(P, C, L, error_response("Could not update post", 400), "closed")
        ELSE IF f = 4 \/ f = 5
        THEN Out(P2, C, L, error_response("Could not update post", 400), "closed")
        ELSE Out(P2, C, L,
                 Entity(200, [id |-> postId, username |-> data.username,
                              content |-> data.content,
                              createdAt |-> post.createdAt, updatedAt |-> now,
                              likes |-> CountLikes(L, postId),
                              comments |-> CountComments(C, postId)]),
                 "closed")

\* DELETE /posts/{postId}
delete_post(P, C, L, postId, f) ==
    LET post == fetchone(SelectPost(P, postId))
    IN  IF f = 1 THEN Out(P, C, L, Uncaught, "open")
        ELSE IF post = None
        THEN Out(P, C, L, error_response("Post not found", 404), "closed")
        ELSE IF f \in 2..5 THEN Out(P, C, L, Uncaught, "open")
        ELSE Out(DeletePost(P, postId), DeleteCommentsOf(C, postId),
                 DeleteLikesOf(L, postId), Empty(204), "closed")

\* GET /posts/{postId}/comments
list_comments(P, C, L, postId, f) ==
    IF f = 1 THEN Out(P, C, L, Uncaught, "open")
    ELSE Out(P, C, L,
             Listing({Comment(r) : r \in SelectComments(C, postId)}), "closed")

\* POST /posts/{postId}/comments
create_comment(P, C, L, comment_id, postId, data, now, f) ==
    LET row == [id |-> comment_id, postId |-> postId,
                username |-> data.username, content |-> data.content,
                createdAt |-> now, updatedAt |-> now]
        ins == InsertComment(C, row)
    IN  IF f = 1 \/ ~ins.ok \/ f = 2
        THEN Out(P, C, L, error_response("Could not create comment", 400),
                 "closed")
        ELSE Out(P, ins.t, L, Entity(201, Comment(row)), "closed")

\* GET /posts/{postId}/comments/{commentId}
get_comment(P, C, L, postId, commentId, f) ==
    LET comment == fetchone(SelectComment(C, commentId, postId))
    IN  IF f = 1 THEN Out(P, C, L, Uncaught, "open")
        ELSE IF comment = None
        THEN Out(P, C, L, error_response("Comment not found", 404), "closed")
        ELSE Out(P, C, L, Entity(200, Comment(comment)), "closed")

\* PATCH /posts/{postId}/comments/{commentId}
update_comment(P, C, L, postId, commentId, data, now, f) ==
    LET comment == fetchone(SelectComment(C, commentId, postId))
    IN  IF f = 1 THEN Out(P, C, L, Uncaught, "open")
        ELSE IF comment = None
        THEN Out(P, C, L, error_response("Comment not found", 404), "closed")
        ELSE IF f = 2 \/ f = 3
        THEN Out(P, C, L, error_response("Could not update comment", 400),
                 "closed")
        ELSE Out(P, UpdateComment(C, commentId, postId, data, now), L,
                 Entity(200, [id |-> commentId, postId |-> postId,
                              username |-> data.username,
                              content |-> data.content,
                              createdAt |-> comment.createdAt,
                              updatedAt |-> now]),
                 "closed")

\* DELETE /posts/{postId}/comments/{commentId}
delete_comment(P, C, L, postId, commentId, f) ==
    LET comment == fetchone(SelectComment(C, commentId, postId))
    IN  IF f = 1 THEN Out(P, C, L, Uncaught, "open")
        ELSE IF comment = None
        THEN Out(P, C, L, error_response("Comment not found", 404), "closed")
        ELSE IF f = 2 \/ f = 3
        THEN Out(P, C, L, Uncaught, "open")
        ELSE Out(P, DeleteComment(C, commentId, postId), L, Empty(204), "closed")

\* POST /posts/{postId}/likes
like_post(P, C, L, postId, data, f) ==
    LET post == fetchone(SelectPost(P, postId))
        ins  == InsertLike(L, postId, data.username)
    IN  IF f = 1 THEN Out(P, C, L, Uncaught, "open")
        ELSE IF post = None
        THEN Out(P, C, L, error_response("Post not found", 404), "closed")
        ELSE IF f = 2 \/ ~ins.ok \/ f = 3
        THEN Out(P, C, L, error_response("Could not like post", 400), "closed")
        ELSE Out(P, C, ins.t, Empty(201), "closed")

\* DELETE /posts/{postId}/likes
unlike_post(P, C, L, postId, data, f) ==
    LET post == fetchone(SelectPost(P, postId))
    IN  IF f = 1 THEN Out(P, C, L, Uncaught, "open")
        ELSE IF post = None
        THEN Out(P, C, L, error_response("Post not found", 404), "closed")
        ELSE IF f = 2 \/ f = 3
        THEN Out(P, C, L, Uncaught, "open")
        ELSE Out(P, C, DeleteLike(L, postId, data.username), Empty(204),
                 "closed")

\* --------------------------------------------------- serving, one at a time
NoRequest == [op |-> "none", postId |-> "-", commentId |-> "-", id |-> "-",
              data |-> None, now |-> 0]
Request(op, postId, commentId, id, data, now) ==
    [op |-> op, postId |-> postId, commentId |-> commentId, id |-> id,
     data |-> data, now |-> now]

Ids(T) == {r.id : r \in T}

\* createdAt as assigned when the row was created (kept while the row lives)
Births(T, old, creates, id, now) ==
    [i \in Ids(T) |-> IF creates /\ i = id THEN now
                      ELSE IF i \in DOMAIN old THEN old[i] ELSE 0]

Idle == \A w \in Workers : pc[w] = "idle"

\* What the request served last took out of the store
Gone(out) ==
    [comments |-> Ids(comments) \ Ids(out.comments),
     likes    |-> BagToSet(likes) \ BagToSet(out.likes)]

\* The end of a request: its response goes out and what it committed is the
\* store.
Finish(rq, out) ==
    /\ posts' = out.posts
    /\ comments' = out.comments
    /\ likes' = out.likes
    /\ conn' = out.conn
    /\ last' = [req |-> rq, status |-> out.resp.status, kind |-> out.resp.kind,
                body |-> out.resp.body, gone |-> Gone(out)]
    /\ born' = [posts |-> Births(out.posts, born.posts,
                                 rq.op = "create_post" /\ out.resp.status = 201,
                                 rq.id, rq.now),
                comments |-> Births(out.comments, born.comments,
                                 rq.op = "create_comment" /\ out.resp.status = 201,
                                 rq.id, rq.now)]

\* Each request below is served with no other request in progress: the action
\* is the whole handler.
ListPosts(f) ==
    /\ Idle
    /\ Finish(Request("list_posts", "-", "-", "-", None, 0),
               list_posts(posts, comments, likes, f))
    /\ UNCHANGED concVars

CreatePost(post_id, data, now, f) ==
    /\ Idle
    /\ Finish(Request("create_post", "-", "-", post_id, data, now),
               create_post(posts, comments, likes, post_id, data, now, f))
    /\ UNCHANGED concVars

GetPost(postId, f) ==
    /\ Idle
    /\ Finish(Request("get_post", postId, "-", "-", None, 0),
               get_post(posts, comments, likes, postId, f))
    /\ UNCHANGED concVars

UpdatePostReq(postId, data, now, f) ==
    /\ Idle
    /\ Finish(Request("update_post", postId, "-", "-", data, now),
               update_post(posts, comments, likes, postId, data, now, f))
    /\ UNCHANGED concVars

DeletePostReq(postId, f) ==
    /\ Idle
    /\ Finish(Request("delete_post", postId, "-", "-", None, 0),
               delete_post(posts, comments, likes, postId, f))
    /\ UNCHANGED concVars

ListComments(postId, f) ==
    /\ Idle
    /\ Finish(Request("list_comments", postId, "-", "-", None, 0),
               list_comments(posts, comments, likes, postId, f))
    /\ UNCHANGED concVars

CreateComment(comment_id, postId, data, now, f) ==
    /\ Idle
    /\ Finish(Request("create_comment", postId, "-", comment_id, data, now),
               create_comment(posts, comments, likes, comment_id, postId, data, now, f))
    /\ UNCHANGED concVars

GetComment(postId, commentId, f) ==
    /\ Idle
    /\ Finish(Request("get_comment", postId, commentId, "-", None, 0),
               get_comment(posts, comments, likes, postId, commentId, f))
    /\ UNCHANGED concVars

UpdateCommentReq(postId, commentId, data, now, f) ==
    /\ Idle
    /\ Finish(Request("update_comment", postId, commentId, "-", data, now),
               update_comment(posts, comments, likes, postId, commentId, data, now, f))
    /\ UNCHANGED concVars

DeleteCommentReq(postId, commentId, f) ==
    /\ Idle
    /\ Finish(Request("delete_comment", postId, commentId, "-", None, 0),
               delete_comment(posts, comments, likes, postId, commentId, f))
    /\ UNCHANGED concVars

LikePost(postId, data, f) ==
    /\ Idle
    /\ Finish(Request("like_post", postId, "-", "-", data, 0),
               like_post(posts, comments, likes, postId, data, f))
    /\ UNCHANGED concVars

UnlikePost(postId, data, f) ==
    /\ Idle
    /\ Finish(Request("unlike_post", postId, "-", "-", data, 0),
               unlike_post(posts, comments, likes, postId, data, f))
    /\ UNCHANGED concVars

LikeBodies == {[username |-> u] : u \in Usernames}

\* init_db() on an absent file: three empty tables
Init ==
    /\ posts = {}
    /\ comments = {}
    /\ likes = EmptyBag
    /\ last = [req |-> NoRequest, status |-> 0, kind |-> "none", body |-> None,
               gone |-> [comments |-> {}, likes |-> {}]]
    /\ conn = "closed"
    /\ born = [posts |-> << >>, comments |-> << >>]
    /\ pc = [w \in Workers |-> "idle"]
    /\ req = [w \in Workers |-> NoRequest]
    /\ txn = None
    /\ writer = "-"

\* The requests a specification draws from: the ids the random generator and
\* the callers may produce, the request bodies and the clock readings.
Requests(f, D) ==
    \/ ListPosts(f)
    \/ \E i \in D.pids, d \in D.bodies, t \in D.times : CreatePost(i, d, t, f)
    \/ \E i \in D.pids : GetPost(i, f)
    \/ \E i \in D.pids, d \in D.bodies, t \in D.times : UpdatePostReq(i, d, t, f)
    \/ \E i \in D.pids : DeletePostReq(i, f)
    \/ \E i \in D.pids : ListComments(i, f)
    \/ \E c \in D.cids, i \in D.pids, d \in D.bodies, t \in D.times :
          CreateComment(c, i, d, t, f)
    \/ \E i \in D.pids, c \in D.cids : GetComment(i, c, f)
    \/ \E i \in D.pids, c \in D.cids, d \in D.bodies, t \in D.times :
          UpdateCommentReq(i, c, d, t, f)
    \/ \E i \in D.pids, c \in D.cids : DeleteCommentReq(i, c, f)
    \/ \E i \in D.pids, d \in LikeBodies : LikePost(i, d, f)
    \/ \E i \in D.pids, d \in LikeBodies : UnlikePost(i, d, f)

\* Spec: two posts, two comments, one clock reading
Wide == [pids |-> PostIds, cids |-> CommentIds, bodies |-> Bodies,
         times |-> {1}]
Next == Requests(0, Wide)
Spec == Init /\ [][Next]_vars

\* SpecTime: one post, one comment, every clock reading
Timed == [pids |-> {"p1"}, cids |-> {"c1"}, bodies |-> Bodies,
          times |-> Times]
NextTime == Requests(0, Timed)
SpecTime == Init /\ [][NextTime]_vars

\* SpecFault: as SpecTime with one clock reading, and a statement may raise
Small == [pids |-> {"p1"}, cids |-> {"c1"}, bodies |-> Bodies, times |-> {1}]
NextFault == \E f \in 0..MaxStmt : Requests(f, Small)
SpecFault == Init /\ [][NextFault]_vars

\* ------------------------------------------- like_post / delete_post, by step
\* Each worker thread serves one request at a time on its own connection.
\* A statement is atomic.  The first write statement of a connection opens a
\* transaction and takes the store's write lock; its writes are seen by the
\* other connections at commit.  A write statement that finds the lock taken
\* waits, and raises sqlite3.OperationalError when its wait times out.
Tables == [posts |-> posts, comments |-> comments, likes |-> likes]

Step(w, next) ==
    /\ pc' = [pc EXCEPT ![w] = next]
    /\ UNCHANGED <<posts, comments, likes, last, conn, born, req>>

\* the request of worker w ends with response r, having committed tables T
Respond(w, r, cn, T) ==
    /\ Finish(req[w], Out(T.posts, T.comments, T.likes, r, cn))
    /\ pc' = [pc EXCEPT ![w] = "idle"]
    /\ req' = [req EXCEPT ![w] = NoRequest]

\* conn = get_db() of like_post
BeginLike(w, postId, data) ==
    /\ pc[w] = "idle"
    /\ req' = [req EXCEPT ![w] = Request("like_post", postId, "-", "-", data, 0)]
    /\ pc' = [pc EXCEPT ![w] = "like_select"]
    /\ UNCHANGED <<posts, comments, likes, last, conn, born, txn, writer>>

\* post = SELECT ...; if not post: close, 404
LikeSelect(w) ==
    /\ pc[w] = "like_select"
    /\ IF fetchone(SelectPost(posts, req[w].postId)) = None
       THEN Respond(w, error_response("Post not found", 404), "closed", Tables)
       ELSE Step(w, "like_insert")
    /\ UNCHANGED <<txn, writer>>

\* INSERT INTO likes ...: raises on a duplicate -> except: 400, finally: close
LikeInsert(w) ==
    /\ pc[w] = "like_insert"
    /\ writer = "-"
    /\ LET ins == InsertLike(likes, req[w].postId, req[w].data.username)
       IN  IF ins.ok
           THEN /\ writer' = w
                /\ txn' = [Tables EXCEPT !.likes = ins.t]
                /\ Step(w, "like_commit")
           ELSE /\ Respond(w, error_response("Could not like post", 400),
                           "closed", Tables)
                /\ UNCHANGED <<txn, writer>>

\* INSERT INTO likes ... timing out on the write lock -> except: 400
LikeBusy(w) ==
    /\ pc[w] = "like_insert"
    /\ writer \notin {"-", w}
    /\ Respond(w, error_response("Could not like post", 400), "closed", Tables)
    /\ UNCHANGED <<txn, writer>>

\* conn.commit(); return Response(201); finally: close
LikeCommit(w) ==
    /\ pc[w] = "like_commit"
    /\ writer = w
    /\ Respond(w, Empty(201), "closed", txn)
    /\ writer' = "-"
    /\ txn' = None

\* conn = get_db() of delete_post
BeginDelete(w, postId) ==
    /\ pc[w] = "idle"
    /\ req' = [req EXCEPT ![w] = Request("delete_post", postId, "-", "-", None, 0)]
    /\ pc' = [pc EXCEPT ![w] = "del_select"]
    /\ UNCHANGED <<posts, comments, likes, last, conn, born, txn, writer>>

\* post = SELECT ...; if not post: close, 404
DelSelect(w) ==
    /\ pc[w] = "del_select"
    /\ IF fetchone(SelectPost(posts, req[w].postId)) = None
       THEN Respond(w, error_response("Post not found", 404), "closed", Tables)
       ELSE Step(w, "del_posts")
    /\ UNCHANGED <<txn, writer>>

\* DELETE FROM posts WHERE id=?
DelPosts(w) ==
    /\ pc[w] = "del_posts"
    /\ writer = "-"
    /\ writer' = w
    /\ txn' = [Tables EXCEPT !.posts = DeletePost(posts, req[w].postId)]
    /\ Step(w, "del_comments")

\* DELETE FROM posts ... timing out on the write lock: the exception leaves
\* the handler, the connection is not closed
DelBusy(w) ==
    /\ pc[w] = "del_posts"
    /\ writer \notin {"-", w}
    /\ Respond(w, Uncaught, "open", Tables)
    /\ UNCHANGED <<txn, writer>>

\* DELETE FROM comments WHERE postId=?
DelComments(w) ==
    /\ pc[w] = "del_comments"
    /\ txn' = [txn EXCEPT !.comments = DeleteCommentsOf(txn.comments, req[w].postId)]
    /\ Step(w, "del_likes")
    /\ UNCHANGED writer

\* DELETE FROM likes WHERE postId=?
DelLikes(w) ==
    /\ pc[w] = "del_likes"
    /\ txn' = [txn EXCEPT !.likes = DeleteLikesOf(txn.likes, req[w].postId)]
    /\ Step(w, "del_commit")
    /\ UNCHANGED writer

\* conn.commit(); conn.close(); return Response(204)
DelCommit(w) ==
    /\ pc[w] = "del_commit"
    /\ writer = w
    /\ Respond(w, Empty(204), "closed", txn)
    /\ writer' = "-"
    /\ txn' = None

\* SpecConc: posts and comments are created between requests; like_post and
\* delete_post requests run on the workers, their statements interleaved
Conc == [pids |-> PostIds, cids |-> {"c1"},
         bodies |-> {[username |-> "ann", content |-> "hi"]}, times |-> {1}]
NextConc ==
    \/ \E i \in Conc.pids, d \in Conc.bodies, t \in Conc.times :
          CreatePost(i, d, t, 0)
    \/ \E c \in Conc.cids, i \in Conc.pids, d \in Conc.bodies, t \in Conc.times :
          CreateComment(c, i, d, t, 0)
    \/ \E w \in Workers, i \in Conc.pids, d \in LikeBodies : BeginLike(w, i, d)
    \/ \E w \in Workers : LikeSelect(w)
    \/ \E w \in Workers : LikeInsert(w)
    \/ \E w \in Workers : LikeBusy(w)
    \/ \E w \in Workers : LikeCommit(w)
    \/ \E w \in Workers, i \in Conc.pids : BeginDelete(w, i)
    \/ \E w \in Workers : DelSelect(w)
    \/ \E w \in Workers : DelPosts(w)
    \/ \E w \in Workers : DelBusy(w)
    \/ \E w \in Workers : DelComments(w)
    \/ \E w \in Workers : DelLikes(w)
    \/ \E w \in Workers : DelCommit(w)
SpecConc == Init /\ [][NextConc]_vars

\* ------------------------------------------------------------------- claims
\* In a step of Spec, SpecTime or SpecFault, last' is the request the step
\* served and its response, the unprimed tables are the store before it.

\* rows of likes / comments that reference post i
LikeRows(i) ==
    LET S == {e \in BagToSet(likes) : e.postId = i}
    IN  BagCardinality([e \in S |-> likes[e]])
CommentRows(i) == Cardinality({c \in comments : c.postId = i})

C1_LikeStep ==
    last'.req.op = "like_post" =>
      LET postId == last'.req.postId
          row == [postId |-> postId, username |-> last'.req.data.username]
      IN  SelectPost(posts, postId) # {} =>
            IF BagIn(row, likes)
            THEN last'.status = 400 /\ likes' = likes
            ELSE last'.status = 201 /\ CopiesIn(row, likes') = 1

\* C1: the likes table never holds two rows with the same (postId, username);
\* Like Post on an existing post returns 201 when the user has no like on it
\* and 400, leaving the likes table as it was, when the user already has one.
C1_OneLikePerUser ==
    /\ [](\A e \in BagToSet(likes) : CopiesIn(e, likes) = 1)
    /\ [][C1_LikeStep]_vars

\* C1 witness: a second Like Post by the same user has just been refused
C1_SecondLikeRefused ==
    /\ last.req.op = "like_post"
    /\ last.status = 400
    /\ BagIn([postId |-> last.req.postId,
              username |-> last.req.data.username], likes)

C2_DeleteStep ==
    last'.req.op = "delete_post" =>
      LET postId == last'.req.postId
      IN  IF SelectPost(posts, postId) = {}
          THEN last'.status = 404
          ELSE /\ last'.status = 204
               /\ get_post(posts', comments', likes', postId, 0).resp.status = 404
               /\ \A c \in SelectComments(comments, postId) :
                     get_comment(posts', comments', likes', postId, c.id, 0)
                        .resp.status = 404
               /\ \A c \in comments' : c.postId # postId
               /\ \A e \in BagToSet(likes') : e.postId # postId

\* C2: Delete Post on an existing post returns 204, and right after it Get
\* Post on that id returns 404, Get Comment on each of its former comments
\* returns 404 and no comment or like row with that postId is in the store;
\* Delete Post on an id with no post returns 404.
C2_DeleteCascades == [][C2_DeleteStep]_vars

\* C2 witness: a post that had comments and likes has just been deleted,
\* while comments of another post are still there
C2_DeletedWithChildren ==
    /\ last.req.op = "delete_post"
    /\ last.status = 204
    /\ last.gone.comments # {}
    /\ last.gone.likes # {}
    /\ comments # {}

\* C3: when a request has finished, its connection is closed, on every exit
\* path of every handler, a failing storage statement included.
C3_ConnectionReleased == conn = "closed"

\* C4: every failure inside an operation, a failing storage statement
\* included, leaves the handler as a response of the shape {message, code}
\* whose status equals code.
C4_ErrorsCaught ==
    last.status >= 400 => (last.kind = "error" /\ last.body.code = last.status)

\* C5: no comment references a missing post, and List Comments for a postId
\* with no post returns the empty array.
C5_NoCommentWithoutPost ==
    /\ \A c \in comments : SelectPost(posts, c.postId) # {}
    /\ (last.req.op = "list_comments" /\ SelectPost(posts, last.req.postId) = {})
          => (last.status = 200 /\ last.body = {})

C6_UpdateStep ==
    /\ (last'.req.op = "update_post" /\ last'.status = 200) =>
          LET old == fetchone(SelectPost(posts, last'.req.postId))
              new == fetchone(SelectPost(posts', last'.req.postId))
          IN  /\ new # None
              /\ new.createdAt = old.createdAt
              /\ last'.body.createdAt = old.createdAt
              /\ last'.body.id = old.id
              /\ new.updatedAt # old.updatedAt
    /\ (last'.req.op = "update_comment" /\ last'.status = 200) =>
          LET old == fetchone(SelectComment(comments, last'.req.commentId,
                                            last'.req.postId))
              new == fetchone(SelectComment(comments', last'.req.commentId,
                                            last'.req.postId))
          IN  /\ new # None
              /\ new.createdAt = old.createdAt
              /\ last'.body.createdAt = old.createdAt
              /\ last'.body.id = old.id
              /\ new.updatedAt # old.updatedAt

\* C6 as stated: an update keeps id and createdAt and leaves updatedAt
\* different from its value before the update.
C6_UpdatedAtAlwaysChanges == [][C6_UpdateStep]_vars

\* C6 as amended: every stored post and comment has the createdAt it was given
\* at creation; after Update Post / Update Comment returned 200 the row with
\* that id holds the submitted username and content and updatedAt equal to the
\* clock reading of the update, and the response carries the same values with
\* the id and the createdAt of the creation.
C6_UpdateKeepsIdAndCreatedAt ==
    /\ \A r \in posts : r.createdAt = born.posts[r.id]
    /\ \A r \in comments : r.createdAt = born.comments[r.id]
    /\ (last.req.op = "update_post" /\ last.status = 200) =>
          LET row == fetchone(SelectPost(posts, last.req.postId))
          IN  /\ row # None
              /\ row.username = last.req.data.username
              /\ row.content = last.req.data.content
              /\ row.updatedAt = last.req.now
              /\ last.body.id = last.req.postId
              /\ last.body.createdAt = born.posts[last.req.postId]
              /\ last.body.username = row.username
              /\ last.body.content = row.content
              /\ last.body.updatedAt = row.updatedAt
    /\ (last.req.op = "update_comment" /\ last.status = 200) =>
          LET row == fetchone(SelectComment(comments, last.req.commentId,
                                            last.req.postId))
          IN  /\ row # None
              /\ row.username = last.req.data.username
              /\ row.content = last.req.data.content
              /\ row.updatedAt = last.req.now
              /\ last.body.id = last.req.commentId
              /\ last.body.postId = last.req.postId
              /\ last.body.createdAt = born.comments[last.req.commentId]
              /\ last.body.username = row.username
              /\ last.body.content = row.content
              /\ last.body.updatedAt = row.updatedAt

\* C6 witness: a comment has just been updated at a clock reading other than
\* that of its creation, and the store holds a post that was updated so too
C6_UpdatedLater ==
    /\ last.req.op = "update_comment"
    /\ last.status = 200
    /\ last.body.updatedAt # last.body.createdAt
    /\ \E r \in posts : r.updatedAt # r.createdAt

\* C7: right after Create Post returned 201, Get Post on the returned id
\* returns 200 with the submitted username and content, likes = 0,
\* comments = 0 and createdAt = updatedAt.
C7_CreateThenGet ==
    (last.req.op = "create_post" /\ last.status = 201) =>
       LET got == get_post(posts, comments, likes, last.body.id, 0).resp
       IN  /\ got.status = 200
           /\ got.body.username = last.req.data.username
           /\ got.body.content = last.req.data.content
           /\ got.body.likes = 0
           /\ got.body.comments = 0
           /\ got.body.createdAt = got.body.updatedAt

C8_UnlikeStep ==
    last'.req.op = "unlike_post" =>
      LET postId == last'.req.postId
          data == last'.req.data
          row == [postId |-> postId, username |-> data.username]
      IN  IF SelectPost(posts, postId) # {}
          THEN /\ last'.status = 204
               /\ ~BagIn(row, likes')
               /\ \A e \in (BagToSet(likes) \cup BagToSet(likes')) \ {row} :
                     CopiesIn(e, likes') = CopiesIn(e, likes)
               /\ posts' = posts
               /\ comments' = comments
               /\ unlike_post(posts', comments', likes', postId, data, 0)
                    = Out(posts', comments', likes', Empty(204), "closed")
          ELSE /\ last'.status = 404
               /\ posts' = posts
               /\ comments' = comments
               /\ likes' = likes

\* C8: Unlike Post on an existing post returns 204 whether or not the like
\* exists, leaves no like row (postId, username), changes no other like row,
\* no post and no comment, and done again returns 204 and changes nothing; on
\* a missing post it returns 404 and changes nothing.
C8_UnlikeIdempotent == [][C8_UnlikeStep]_vars

\* C8 witness: an Unlike Post has just removed a like and returned 204, and
\* another user's like on the same post is still there
C8_UnlikedOneOfTwo ==
    /\ last.req.op = "unlike_post"
    /\ last.status = 204
    /\ last.gone.likes # {}
    /\ \E e \in BagToSet(likes) : e.postId = last.req.postId

C9_Counts ==
    /\ (last.req.op \in {"get_post", "update_post"} /\ last.status = 200) =>
          /\ last.body.likes = LikeRows(last.req.postId)
          /\ last.body.comments = CommentRows(last.req.postId)
    /\ (last.req.op = "list_posts" /\ last.status = 200) =>
          /\ {p.id : p \in last.body} = Ids(posts)
          /\ \A p \in last.body : /\ p.likes = LikeRows(p.id)
                                  /\ p.comments = CommentRows(p.id)

C9_LikeStep ==
    (last'.req.op = "like_post" /\ last'.status = 201) =>
       get_post(posts', comments', likes', last'.req.postId, 0).resp.body.likes
          = get_post(posts, comments, likes, last'.req.postId, 0).resp.body.likes
              + 1

\* C9: the Post returned by Get Post, Update Post and List Posts carries
\* likes = the number of like rows and comments = the number of comment rows
\* that reference the post in the store; a successful Like Post raises the
\* likes that Get Post reports by one (from 0 to 1 on a fresh post).
C9_LiveCounts == []C9_Counts /\ [][C9_LikeStep]_vars

\* C9 witness: Get Post has just reported two likes and two comments
C9_TwoAndTwo ==
    /\ last.req.op = "get_post"
    /\ last.status = 200
    /\ last.body.likes = 2
    /\ last.body.comments = 2

\* C10: whenever no like_post / delete_post request is in progress, every
\* like row references a post that is in the store.
C10_NoLikeWithoutPost ==
    Idle => \A e \in BagToSet(likes) : SelectPost(posts, e.postId) # {}

====
